---- MODULE Spec2Model ----
(***************************************************************************)
(* Model of main.go: the request signer (urlEncode, getRequestParamString, *)
(* sign) and the position reporter (main, queryFairPriceForSymbol).         *)
(*                                                                         *)
(* Strings that the program builds or inspects character by character are  *)
(* sequences of one-character strings; opaque identifiers (symbols, header *)
(* names, message texts) are TLA+ strings.  float64 prices are integers    *)
(* (exactly representable), and a float64 quotient is a record that is     *)
(* either a fraction or an IEEE infinity.                                  *)
(***************************************************************************)
EXTENDS Integers, Sequences, FiniteSets, TLC

VARIABLES
    pc,          \* position of the single thread of control
    now,         \* wall clock, milliseconds since the epoch
    accessKey,   \* os.Getenv("MEXC_ACCESS_KEY")
    secretKey,   \* os.Getenv("MEXC_SECRET_KEY")
    req,         \* the *http.Request under construction / in flight
    signArgs,    \* arguments of the latest call of sign
    body,        \* the response body read by ReadAll
    positions,   \* resp.Data of main
    idx,         \* index of the range loop of main (1-based)
    stage1,      \* how stage 1 ended: "pending", "ok" or the failed step
    calls,       \* arguments of every call of queryFairPriceForSymbol
    sent,        \* every request handed to client.Do, in order
    output,      \* lines printed on standard output, in order
    results,     \* how every finished call of queryFairPriceForSymbol ended
    fin,         \* inputs of the pure function under study
    fout         \* its result

vars == <<pc, now, accessKey, secretKey, req, signArgs, body, positions, idx,
          stage1, calls, sent, output, results, fin, fout>>

----------------------------------------------------------------------------
(* Bounds of the model *)

MaxPositions == 2

\* milliseconds that may pass while one HTTP round trip blocks
ClockSteps == {100, 1000}

\* wall-clock time at process start
StartClocks == {900}

----------------------------------------------------------------------------
(* Characters and strings *)

\* byte value of each character of the model's alphabet
Code(c) ==
    CASE c = " " -> 32
      [] c = "%" -> 37
      [] c = "&" -> 38
      [] c = "+" -> 43
      [] c = "0" -> 48
      [] c = "1" -> 49
      [] c = "2" -> 50
      [] c = "3" -> 51
      [] c = "4" -> 52
      [] c = "5" -> 53
      [] c = "6" -> 54
      [] c = "7" -> 55
      [] c = "8" -> 56
      [] c = "9" -> 57
      [] c = "=" -> 61
      [] c = "B" -> 66
      [] c = "D" -> 68
      [] c = "a" -> 97
      [] c = "b" -> 98
      [] c = "k" -> 107
      [] c = "s" -> 115

\* Go's string comparison: bytewise lexicographic
RECURSIVE StrLess(_, _)
StrLess(s, t) ==
    IF t = <<>> THEN FALSE
    ELSE IF s = <<>> THEN TRUE
    ELSE IF Code(Head(s)) # Code(Head(t)) THEN Code(Head(s)) < Code(Head(t))
    ELSE StrLess(Tail(s), Tail(t))

\* url.QueryEscape on one byte: unreserved bytes stay, space becomes '+',
\* every other byte becomes %XX
QueryEscapeChar(c) ==
    CASE c = " " -> <<"+">>
      [] c = "&" -> <<"%", "2", "6">>
      [] c = "+" -> <<"%", "2", "B">>
      [] c = "=" -> <<"%", "3", "D">>
      [] c = "%" -> <<"%", "2", "5">>
      [] OTHER   -> <<c>>

RECURSIVE QueryEscape(_)
QueryEscape(s) ==
    IF s = <<>> THEN <<>>
    ELSE QueryEscapeChar(Head(s)) \o QueryEscape(Tail(s))

\* strings.ReplaceAll(s, "+", "%20")
RECURSIVE ReplacePlus(_)
ReplacePlus(s) ==
    IF s = <<>> THEN <<>>
    ELSE (IF Head(s) = "+" THEN <<"%", "2", "0">> ELSE <<Head(s)>>)
         \o ReplacePlus(Tail(s))

urlEncode(s) == ReplacePlus(QueryEscape(s))

\* strings.TrimSuffix(s, "&")
TrimSuffixAmp(s) ==
    IF s # <<>> /\ s[Len(s)] = "&" THEN SubSeq(s, 1, Len(s) - 1) ELSE s

\* sort.Strings: repeatedly move the least remaining key to the front
RECURSIVE SortStrings(_)
SortStrings(keys) ==
    IF keys = <<>> THEN <<>>
    ELSE LET m == CHOOSE i \in 1..Len(keys) :
                      \A j \in 1..Len(keys) : ~StrLess(keys[j], keys[i])
             rest == [j \in 1..(Len(keys) - 1) |->
                          IF j < m THEN keys[j] ELSE keys[j + 1]]
         IN  <<keys[m]>> \o SortStrings(rest)

\* the loop of lines 34-36 over the sorted keys
RECURSIVE WriteParams(_, _)
WriteParams(keys, params) ==
    IF keys = <<>> THEN <<>>
    ELSE Head(keys) \o <<"=">> \o urlEncode(params[Head(keys)]) \o <<"&">>
         \o WriteParams(Tail(keys), params)

\* getRequestParamString without the sort of line 31
getRequestParamStringUnsorted(keys, params) ==
    TrimSuffixAmp(WriteParams(keys, params))

\* getRequestParamString; keys is the order in which the range over the map
\* delivered the keys (unspecified in Go)
getRequestParamString(keys, params) ==
    TrimSuffixAmp(WriteParams(SortStrings(keys), params))

----------------------------------------------------------------------------
(* sign *)

\* HMAC-SHA256 as an injective function of key and message
HmacSha256(key, msg) == [key |-> key, msg |-> msg]

\* hex.EncodeToString: injective, lower-case hexadecimal digits
HexEncode(digest) == [hex |-> digest]

\* sign leaving the timestamp out of the signed message
signNoTime(ak, sk, reqTime, paramStr) ==
    LET toSign == ak \o paramStr
    IN  HexEncode(HmacSha256(sk, toSign))

sign(ak, sk, reqTime, paramStr) ==
    LET toSign == ak \o reqTime \o paramStr
    IN  HexEncode(HmacSha256(sk, toSign))

----------------------------------------------------------------------------
(* timestamps *)

Digit(d) ==
    CASE d = 0 -> "0" [] d = 1 -> "1" [] d = 2 -> "2" [] d = 3 -> "3"
      [] d = 4 -> "4" [] d = 5 -> "5" [] d = 6 -> "6" [] d = 7 -> "7"
      [] d = 8 -> "8" [] d = 9 -> "9"

\* strconv.FormatInt(n, 10) for n >= 0
RECURSIVE FormatInt(_)
FormatInt(n) ==
    IF n < 10 THEN <<Digit(n)>>
    ELSE FormatInt(n \div 10) \o <<Digit(n % 10)>>

\* time.Now().Unix()*1000 at wall-clock time t (milliseconds)
UnixTimes1000(t) == (t \div 1000) * 1000

RequestTime(t) == FormatInt(UnixTimes1000(t))

----------------------------------------------------------------------------
(* float64 arithmetic of lines 102-103 *)

Abs(x) == IF x < 0 THEN -x ELSE x

Sgn(x) == IF x < 0 THEN -1 ELSE IF x > 0 THEN 1 ELSE 0

\* (difference / holdAvgPrice) * 100 for difference # 0: a fraction num/den
\* with den > 0, or an IEEE infinity of sign num when holdAvgPrice is zero
PercentOf(difference, holdAvgPrice) ==
    IF holdAvgPrice = 0
    THEN [cls |-> "inf", num |-> Sgn(difference), den |-> 0]
    ELSE [cls |-> "fin",
          num |-> difference * 100 * Sgn(holdAvgPrice),
          den |-> Abs(holdAvgPrice)]

\* unary minus on such a value
Neg(p) == [p EXCEPT !.num = -p.num]

\* the %.2f verb on a finite value: hundredths, rounded to nearest
Fmt2(p) == Sgn(p.num) * ((Abs(p.num) * 200 + p.den) \div (2 * p.den))

\* lines 101-111 printing difference and percentage as computed in both
\* branches
ComparisonLineNoNegate(symbol, fairPrice, holdAvgPrice) ==
    LET difference == fairPrice - holdAvgPrice
        percentageDifference == PercentOf(difference, holdAvgPrice)
    IN  IF difference > 0
        THEN [kind |-> "cmp", symbol |-> symbol, greater |-> "FairPrice",
              first |-> fairPrice, second |-> holdAvgPrice,
              by |-> difference, pct |-> percentageDifference]
        ELSE [kind |-> "cmp", symbol |-> symbol, greater |-> "HoldAvgPrice",
              first |-> holdAvgPrice, second |-> fairPrice,
              by |-> difference, pct |-> percentageDifference]

\* the line printed by lines 101-111, given that the prices differ
ComparisonLine(symbol, fairPrice, holdAvgPrice) ==
    LET difference == fairPrice - holdAvgPrice
        percentageDifference == PercentOf(difference, holdAvgPrice)
    IN  IF difference > 0
        THEN [kind |-> "cmp", symbol |-> symbol, greater |-> "FairPrice",
              first |-> fairPrice, second |-> holdAvgPrice,
              by |-> difference, pct |-> percentageDifference]
        ELSE [kind |-> "cmp", symbol |-> symbol, greater |-> "HoldAvgPrice",
              first |-> holdAvgPrice, second |-> fairPrice,
              by |-> -difference, pct |-> Neg(percentageDifference)]

\* line 101 reporting only a fair price above the hold average price
PricesDifferAbove(fairPrice, holdAvgPrice) == fairPrice > holdAvgPrice

\* the condition of line 101
PricesDiffer(fairPrice, holdAvgPrice) == fairPrice # holdAvgPrice

\* a diagnostic line of fmt.Println / fmt.Printf
Diag(msg, symbol) == [kind |-> "diag", msg |-> msg, symbol |-> symbol]

----------------------------------------------------------------------------
(* the venue's responses and their decoding *)

Symbols == {"BTC_USDT", "ETH_USDT"}

HoldPrices == {0, 100}

FairPrices == {90, 100, 110}

Position == [symbol : Symbols, holdAvgPrice : HoldPrices]

PositionLists == UNION {[1..n -> Position] : n \in 0..MaxPositions}

\* A response body.  syntax: whether it is well-formed JSON; shape: whether
\* the member the decoder looks for is present with the expected type
\* ("present"), present with another JSON type ("mistyped": "data" itself
\* for a fair-price body, the holdAvgPrice members for a positions body), or
\* not there at all ("absent", as in an error envelope {"code":..,"msg":..}).
NoBody == [syntax |-> "none", shape |-> "absent", data |-> <<>>, fairPrice |-> 0]

PositionsBodies ==
    {[syntax |-> "invalid", shape |-> "absent", data |-> <<>>, fairPrice |-> 0],
     [syntax |-> "valid", shape |-> "absent", data |-> <<>>, fairPrice |-> 0]}
    \cup {[syntax |-> "valid", shape |-> "present", data |-> d, fairPrice |-> 0] :
              d \in PositionLists}
    \cup {[syntax |-> "valid", shape |-> "mistyped", data |-> d, fairPrice |-> 0] :
              d \in PositionLists \ {<<>>}}

FairPriceBodies ==
    {[syntax |-> "invalid", shape |-> "absent", data |-> <<>>, fairPrice |-> 0],
     [syntax |-> "valid", shape |-> "absent", data |-> <<>>, fairPrice |-> 0],
     [syntax |-> "valid", shape |-> "mistyped", data |-> <<>>, fairPrice |-> 0]}
    \cup {[syntax |-> "valid", shape |-> "present", data |-> <<>>, fairPrice |-> f] :
              f \in FairPrices}

\* json.Unmarshal into OpenPositionsResponse: a syntax error fills nothing;
\* a member of the wrong type is skipped (left zero), the rest is decoded
\* and an UnmarshalTypeError is returned; a missing member is left zero
\* without an error.
UnmarshalPositions(b) ==
    IF b.syntax # "valid" THEN [err |-> TRUE, Data |-> <<>>]
    ELSE IF b.shape = "absent" THEN [err |-> FALSE, Data |-> <<>>]
    ELSE IF b.shape = "mistyped"
         THEN [err |-> TRUE,
               Data |-> [i \in 1..Len(b.data) |->
                            [b.data[i] EXCEPT !.holdAvgPrice = 0]]]
    ELSE [err |-> FALSE, Data |-> b.data]

\* json.Unmarshal into FairPriceResponse
UnmarshalFairPrice(b) ==
    IF b.syntax # "valid" THEN [err |-> TRUE, FairPrice |-> 0]
    ELSE IF b.shape = "absent" THEN [err |-> FALSE, FairPrice |-> 0]
    ELSE IF b.shape = "mistyped" THEN [err |-> TRUE, FairPrice |-> 0]
    ELSE [err |-> FALSE, FairPrice |-> b.fairPrice]

----------------------------------------------------------------------------
(* requests *)

BaseURL == "https://contract.mexc.com"

OpenPositionsPath == "/api/v1/private/position/open_positions"

FairPricePath == "/api/v1/contract/fair_price/"

NoRequest == [url |-> <<>>, header |-> <<>>]

NoSign == [ak |-> <<>>, sk |-> <<>>, reqTime |-> <<>>, paramStr |-> <<>>]

\* the Add calls with the values of ApiKey and Request-Time exchanged
AuthHeaderSwapped(ak, reqTime, signature) ==
    <<[name |-> "ApiKey", value |-> reqTime],
      [name |-> "Request-Time", value |-> ak],
      [name |-> "Signature", value |-> signature],
      [name |-> "Content-Type", value |-> "application/json"]>>

\* the four req.Header.Add calls (lines 76-79 and 136-139) on a new request
AuthHeader(ak, reqTime, signature) ==
    <<[name |-> "ApiKey", value |-> ak],
      [name |-> "Request-Time", value |-> reqTime],
      [name |-> "Signature", value |-> signature],
      [name |-> "Content-Type", value |-> "application/json"]>>

\* req.Header.Get: the first value added under the name, "" if none
HeaderGet(header, name) ==
    IF \E i \in 1..Len(header) : header[i].name = name
    THEN header[CHOOSE i \in 1..Len(header) :
                    /\ header[i].name = name
                    /\ \A j \in 1..(i - 1) : header[j].name # name].value
    ELSE ""

HeaderCount(header, name) ==
    Cardinality({i \in 1..Len(header) : header[i].name = name})

----------------------------------------------------------------------------
(* the program *)

Init ==
    /\ pc = "main"
    /\ now \in StartClocks
    /\ accessKey = <<"a", "k">>
    /\ secretKey = <<"s", "k">>
    /\ req = NoRequest
    /\ signArgs = NoSign
    /\ body = NoBody
    /\ positions = <<>>
    /\ idx = 0
    /\ stage1 = "pending"
    /\ calls = <<>>
    /\ sent = <<>>
    /\ output = <<>>
    /\ results = <<>>
    /\ fin = <<>>
    /\ fout = <<>>

\* stage 1 ends the run with a diagnostic
Stage1Fail(step, msg) ==
    /\ output' = Append(output, Diag(msg, ""))
    /\ stage1' = step
    /\ pc' = "done"

\* main, lines 115-139: sign and build the open-positions request
MainPrepare ==
    /\ pc = "main"
    /\ LET params   == <<>>
           paramStr == getRequestParamString(<<>>, params)
           reqTime  == RequestTime(now)
           signature == sign(accessKey, secretKey, reqTime, paramStr)
       IN  /\ signArgs' = [ak |-> accessKey, sk |-> secretKey,
                           reqTime |-> reqTime, paramStr |-> paramStr]
           /\ \E ok \in BOOLEAN :
                IF ok
                THEN /\ req' = [url |-> <<BaseURL, OpenPositionsPath>>,
                                header |-> AuthHeader(accessKey, reqTime, signature)]
                     /\ pc' = "main_do"
                     /\ UNCHANGED <<output, stage1>>
                ELSE /\ Stage1Fail("create", "Error creating request:")
                     /\ UNCHANGED req
    /\ UNCHANGED <<now, accessKey, secretKey, body, positions, idx, calls,
                   sent, results, fin, fout>>

\* main, lines 141-146: client.Do blocks until the response head arrives
MainDo ==
    /\ pc = "main_do"
    /\ sent' = Append(sent, req)
    /\ \E d \in ClockSteps : now' = now + d
    /\ \E ok \in BOOLEAN :
         IF ok
         THEN pc' = "main_read" /\ UNCHANGED <<output, stage1>>
         ELSE Stage1Fail("send", "Error sending request:")
    /\ UNCHANGED <<accessKey, secretKey, req, signArgs, body, positions, idx,
                   calls, results, fin, fout>>

\* main, lines 148-152: io.ReadAll
MainRead ==
    /\ pc = "main_read"
    /\ \/ /\ \E b \in PositionsBodies : body' = b
          /\ pc' = "main_decode"
          /\ UNCHANGED <<output, stage1>>
       \/ /\ Stage1Fail("read", "Error reading response body:")
          /\ UNCHANGED body
    /\ UNCHANGED <<now, accessKey, secretKey, req, signArgs, positions, idx,
                   calls, sent, results, fin, fout>>

\* lines 154-158 without the return after the diagnostic
MainDecodeNoReturn ==
    /\ pc = "main_decode"
    /\ LET r == UnmarshalPositions(body)
       IN  /\ positions' = r.Data
           /\ idx' = 1
           /\ pc' = "loop"
           /\ IF r.err
              THEN /\ output' = Append(output, Diag("Error decoding response JSON:", ""))
                   /\ stage1' = "decode"
              ELSE /\ stage1' = "ok"
                   /\ UNCHANGED output
    /\ UNCHANGED <<now, accessKey, secretKey, req, signArgs, body, calls,
                   sent, results, fin, fout>>

\* main, lines 154-158: json.Unmarshal
MainDecode ==
    /\ pc = "main_decode"
    /\ LET r == UnmarshalPositions(body)
       IN  IF r.err
           THEN /\ Stage1Fail("decode", "Error decoding response JSON:")
                /\ UNCHANGED <<positions, idx>>
           ELSE /\ positions' = r.Data
                /\ idx' = 1
                /\ stage1' = "ok"
                /\ pc' = "loop"
                /\ UNCHANGED output
    /\ UNCHANGED <<now, accessKey, secretKey, req, signArgs, body, calls,
                   sent, results, fin, fout>>

\* the range loop passing the first position to every call
LoopNextFirst ==
    /\ pc = "loop"
    /\ IF idx <= Len(positions)
       THEN /\ calls' = Append(calls, [symbol |-> positions[1].symbol,
                                       holdAvgPrice |-> positions[1].holdAvgPrice])
            /\ pc' = "q"
       ELSE /\ pc' = "done"
            /\ UNCHANGED calls
    /\ UNCHANGED <<now, accessKey, secretKey, req, signArgs, body, positions,
                   idx, stage1, sent, output, results, fin, fout>>

\* main, lines 160-162: the range loop calls queryFairPriceForSymbol for the
\* next position, or falls off the end of main
LoopNext ==
    /\ pc = "loop"
    /\ IF idx <= Len(positions)
       THEN /\ calls' = Append(calls, [symbol |-> positions[idx].symbol,
                                       holdAvgPrice |-> positions[idx].holdAvgPrice])
            /\ pc' = "q"
       ELSE /\ pc' = "done"
            /\ UNCHANGED calls
    /\ UNCHANGED <<now, accessKey, secretKey, req, signArgs, body, positions,
                   idx, stage1, sent, output, results, fin, fout>>

\* the parameters of the running call of queryFairPriceForSymbol
symbol == calls[Len(calls)].symbol

holdAvgPrice == calls[Len(calls)].holdAvgPrice

\* queryFairPriceForSymbol returns to the loop, with or without a line.
\* results notes how the call ended: the step that failed or "ok", the body
\* and fair price it decoded, and the lengths of output and sent it left.
Return(outcome, b, fairPrice, lines, nSent) ==
    /\ output' = output \o lines
    /\ results' = Append(results,
                         [outcome |-> outcome, body |-> b, fairPrice |-> fairPrice,
                          outLen |-> Len(output) + Len(lines), sentLen |-> nSent])
    /\ idx' = idx + 1
    /\ pc' = "loop"

\* queryFairPriceForSymbol, lines 64-79
QPrepare ==
    /\ pc = "q"
    /\ LET reqTime   == RequestTime(now)
           signature == sign(accessKey, secretKey, reqTime, <<>>)
       IN  /\ signArgs' = [ak |-> accessKey, sk |-> secretKey,
                           reqTime |-> reqTime, paramStr |-> <<>>]
           /\ \E ok \in BOOLEAN :
                IF ok
                THEN /\ req' = [url |-> <<BaseURL, FairPricePath, symbol>>,
                                header |-> AuthHeader(accessKey, reqTime, signature)]
                     /\ pc' = "q_do"
                     /\ UNCHANGED <<output, idx, results>>
                ELSE /\ Return("create", NoBody, 0,
                               <<Diag("Error creating request for symbol", symbol)>>,
                               Len(sent))
                     /\ UNCHANGED req
    /\ UNCHANGED <<now, accessKey, secretKey, body, positions, stage1, calls,
                   sent, fin, fout>>

\* lines 81-86 with a transport failure ending the run as in stage 1
QDoFatal ==
    /\ pc = "q_do"
    /\ sent' = Append(sent, req)
    /\ \E d \in ClockSteps : now' = now + d
    /\ \E ok \in BOOLEAN :
         IF ok
         THEN pc' = "q_read" /\ UNCHANGED <<output, idx, results>>
         ELSE /\ output' = Append(output,
                                  Diag("Error sending request for symbol", symbol))
              /\ results' = Append(results,
                                   [outcome |-> "send", body |-> NoBody,
                                    fairPrice |-> 0, outLen |-> Len(output) + 1,
                                    sentLen |-> Len(sent) + 1])
              /\ idx' = idx + 1
              /\ pc' = "done"
    /\ UNCHANGED <<accessKey, secretKey, req, signArgs, body, positions,
                   stage1, calls, fin, fout>>

\* queryFairPriceForSymbol, lines 81-86
QDo ==
    /\ pc = "q_do"
    /\ sent' = Append(sent, req)
    /\ \E d \in ClockSteps : now' = now + d
    /\ \E ok \in BOOLEAN :
         IF ok
         THEN pc' = "q_read" /\ UNCHANGED <<output, idx, results>>
         ELSE Return("send", NoBody, 0,
                     <<Diag("Error sending request for symbol", symbol)>>,
                     Len(sent) + 1)
    /\ UNCHANGED <<accessKey, secretKey, req, signArgs, body, positions,
                   stage1, calls, fin, fout>>

\* queryFairPriceForSymbol, lines 88-92
QRead ==
    /\ pc = "q_read"
    /\ \/ /\ \E b \in FairPriceBodies : body' = b
          /\ pc' = "q_decode"
          /\ UNCHANGED <<output, idx, results>>
       \/ /\ Return("read", NoBody, 0,
                    <<Diag("Error reading response body for symbol", symbol)>>,
                    Len(sent))
          /\ UNCHANGED body
    /\ UNCHANGED <<now, accessKey, secretKey, req, signArgs, positions,
                   stage1, calls, sent, fin, fout>>

\* queryFairPriceForSymbol, lines 94-112
QDecodeCompare ==
    /\ pc = "q_decode"
    /\ LET r == UnmarshalFairPrice(body)
       IN  IF r.err
           THEN Return("decode", body, 0,
                       <<Diag("Error decoding fair price response for", symbol)>>,
                       Len(sent))
           ELSE IF PricesDiffer(r.FairPrice, holdAvgPrice)
                THEN Return("ok", body, r.FairPrice,
                            <<ComparisonLine(symbol, r.FairPrice, holdAvgPrice)>>,
                            Len(sent))
                ELSE Return("ok", body, r.FairPrice, <<>>, Len(sent))
    /\ UNCHANGED <<now, accessKey, secretKey, req, signArgs, body, positions,
                   stage1, calls, sent, fin, fout>>

Next ==
    \/ MainPrepare
    \/ MainDo
    \/ MainRead
    \/ MainDecode
    \/ LoopNext
    \/ QPrepare
    \/ QDo
    \/ QRead
    \/ QDecodeCompare

Spec == Init /\ [][Next]_vars

\* every blocking call returns and the thread keeps running
FairSpec == Spec /\ WF_vars(Next)

----------------------------------------------------------------------------
(* getRequestParamString on arbitrary parameter mappings *)

MaxParams == 2

ParamKeys == {<<>>, <<"a">>, <<"a", "b">>, <<"B">>, <<"b">>}

ParamValues == {<<>>, <<"a", " ", "b">>, <<"&">>, <<"+", "=">>}

\* the orders in which a range over a map with key set K may deliver its keys
KeyOrders(K) ==
    {ks \in [1..Cardinality(K) -> K] :
        \A i, j \in 1..Cardinality(K) : i # j => ks[i] # ks[j]}

InitCanon ==
    /\ pc = "canon"
    /\ now = 0
    /\ accessKey = <<>>
    /\ secretKey = <<>>
    /\ req = NoRequest
    /\ signArgs = NoSign
    /\ body = NoBody
    /\ positions = <<>>
    /\ idx = 0
    /\ stage1 = "pending"
    /\ calls = <<>>
    /\ sent = <<>>
    /\ output = <<>>
    /\ results = <<>>
    /\ \E K \in SUBSET ParamKeys :
         /\ Cardinality(K) <= MaxParams
         /\ \E params \in [K -> ParamValues] :
              \E ks \in KeyOrders(K) :
                 fin = [params |-> params, keys |-> ks]
    /\ fout = <<>>

\* one call of getRequestParamString(params)
Canonicalize ==
    /\ pc = "canon"
    /\ fout' = getRequestParamString(fin.keys, fin.params)
    /\ pc' = "canon_done"
    /\ UNCHANGED <<now, accessKey, secretKey, req, signArgs, body, positions,
                   idx, stage1, calls, sent, output, results, fin>>

NextCanon == Canonicalize

SpecCanon == InitCanon /\ [][NextCanon]_vars

\* the entries e[1], .., e[n] joined with '&'
RECURSIVE JoinAmp(_)
JoinAmp(e) ==
    IF e = <<>> THEN <<>>
    ELSE IF Len(e) = 1 THEN e[1]
    ELSE e[1] \o <<"&">> \o JoinAmp(Tail(e))

\* C4: whatever the mapping and the order in which the map delivers its
\* keys, the canonical string is the '&'-join of one entry key=encodedValue
\* per key of the mapping, the keys strictly ascending in bytewise order;
\* it does not end with the separator, and it is empty for the empty mapping.
C4_CanonicalForm ==
    pc = "canon_done" =>
        LET K == DOMAIN fin.params
        IN  /\ \E ks \in KeyOrders(K) :
                 /\ \A i \in 1..(Len(ks) - 1) : StrLess(ks[i], ks[i + 1])
                 /\ fout = JoinAmp([i \in 1..Len(ks) |->
                               ks[i] \o <<"=">> \o urlEncode(fin.params[ks[i]])])
            /\ (fout = <<>> \/ fout[Len(fout)] # "&")
            /\ (K = {} => fout = <<>>)

\* two keys delivered in descending order, one value holding a space, one
\* value empty (so that the builder's text ends with "=&")
C4_Witness ==
    /\ pc = "canon_done"
    /\ Len(fin.keys) = 2
    /\ StrLess(fin.keys[2], fin.keys[1])
    /\ fin.params[fin.keys[2]] = <<"a", " ", "b">>
    /\ fin.params[fin.keys[1]] = <<>>
    /\ fout = fin.keys[2] \o <<"=", "a", "%", "2", "0", "b", "&">>
              \o fin.keys[1] \o <<"=">>

----------------------------------------------------------------------------
(* sign on arbitrary pairs of inputs *)

SignAccessKeys == {<<>>, <<"a">>, <<"a", "b">>}

SignSecretKeys == {<<"s">>, <<"k">>}

SignTimes == {<<"0">>, <<"1">>, <<"b", "1">>}

SignParamStrs == {<<>>, <<"1">>, <<"a", "=", "1">>}

SignInputs ==
    [ak : SignAccessKeys, sk : SignSecretKeys, reqTime : SignTimes,
     paramStr : SignParamStrs]

InitSign ==
    /\ pc = "sign"
    /\ now = 0
    /\ accessKey = <<>>
    /\ secretKey = <<>>
    /\ req = NoRequest
    /\ signArgs = NoSign
    /\ body = NoBody
    /\ positions = <<>>
    /\ idx = 0
    /\ stage1 = "pending"
    /\ calls = <<>>
    /\ sent = <<>>
    /\ output = <<>>
    /\ results = <<>>
    /\ \E x, y \in SignInputs : fin = <<x, y>>
    /\ fout = <<>>

\* two calls of sign
SignTwice ==
    /\ pc = "sign"
    /\ fout' = <<sign(fin[1].ak, fin[1].sk, fin[1].reqTime, fin[1].paramStr),
                 sign(fin[2].ak, fin[2].sk, fin[2].reqTime, fin[2].paramStr)>>
    /\ pc' = "sign_done"
    /\ UNCHANGED <<now, accessKey, secretKey, req, signArgs, body, positions,
                   idx, stage1, calls, sent, output, results, fin>>

NextSign == SignTwice

SpecSign == InitSign /\ [][NextSign]_vars

\* the number of the four inputs in which x and y differ
Differing(x, y) ==
    Cardinality({f \in {"ak", "sk", "reqTime", "paramStr"} : x[f] # y[f]})

\* C9: equal inputs give equal signatures; the signed message is the access
\* key, the timestamp and the parameter string in that order and nothing
\* else, keyed by the secret key; inputs that differ in exactly one of the
\* four give different signatures.
C9_SignSensitive ==
    pc = "sign_done" =>
        /\ (fin[1] = fin[2] => fout[1] = fout[2])
        /\ \A i \in 1..2 :
             /\ fout[i].hex.msg = fin[i].ak \o fin[i].reqTime \o fin[i].paramStr
             /\ fout[i].hex.key = fin[i].sk
        /\ (Differing(fin[1], fin[2]) = 1 => fout[1] # fout[2])

\* the two calls differ in the timestamp only
C9_Witness ==
    /\ pc = "sign_done"
    /\ Differing(fin[1], fin[2]) = 1
    /\ fin[1].reqTime # fin[2].reqTime
    /\ fin[1].ak # <<>>
    /\ fin[1].paramStr # <<>>
    /\ fout[1] # fout[2]

----------------------------------------------------------------------------
(* properties of the position reporter *)

IsPrefix(s, t) == Len(s) <= Len(t) /\ SubSeq(t, 1, Len(s)) = s

Stage1Failed == stage1 \in {"create", "send", "read", "decode"}

InQuery == pc \in {"q", "q_do", "q_read", "q_decode"}

IsFairPriceRequest(r) == Len(r.url) = 3 /\ r.url[2] = FairPricePath

\* the lines that the i-th call of queryFairPriceForSymbol printed
FirstLine(i) == IF i = 1 THEN 1 ELSE results[i - 1].outLen + 1

LinesOf(i) == SubSeq(output, FirstLine(i), results[i].outLen)

\* the requests that the i-th call handed to client.Do
RequestsOf(i) ==
    SubSeq(sent, (IF i = 1 THEN 2 ELSE results[i - 1].sentLen + 1),
           results[i].sentLen)

\* C1: once stage 1 has failed - building the request, sending it, reading
\* the body or decoding it - the run is over with exactly the diagnostic on
\* the output, queryFairPriceForSymbol has not been called and no
\* fair-price request has been sent; and whenever queryFairPriceForSymbol
\* has been called, stage 1 had succeeded.
C1_Stage1FailureIsFatal ==
    /\ Stage1Failed =>
          /\ pc = "done"
          /\ calls = <<>>
          /\ results = <<>>
          /\ \A i \in 1..Len(sent) : ~IsFairPriceRequest(sent[i])
          /\ Len(output) = 1
          /\ output[1].kind = "diag"
    /\ (calls # <<>> \/ InQuery) => stage1 = "ok"

\* the open-positions body decoded with an error although the decoder had
\* filled in positions from it
C1_Witness ==
    /\ stage1 = "decode"
    /\ pc = "done"
    /\ UnmarshalPositions(body).Data # <<>>
    /\ output = <<Diag("Error decoding response JSON:", "")>>

C2_Step ==
    /\ IsPrefix(output, output')
    /\ IsPrefix(results, results')
    /\ IsPrefix(calls, calls')

C2_Done ==
    (pc = "done" /\ stage1 = "ok") =>
        /\ Len(calls) = Len(positions)
        /\ Len(results) = Len(positions)
        /\ \A i \in 1..Len(results) :
              results[i].outcome # "ok" =>
                 \A j \in (i + 1)..Len(positions) :
                    /\ calls[j].symbol = positions[j].symbol
                    /\ results[j].outcome \in {"create", "send", "read", "decode", "ok"}

\* C2: no step removes or changes a line already printed, nor forgets a
\* call made or finished; and a run whose stage 1 succeeded ends only when
\* queryFairPriceForSymbol has been called and has returned for every
\* position, whichever of the calls failed.
C2_FailureIsolation == [][C2_Step]_vars /\ []C2_Done

\* the fetch for the first position failed, the one for the second printed
\* its comparison after the first one's diagnostic
C2_Witness ==
    /\ pc = "done"
    /\ Len(results) = 2
    /\ results[1].outcome = "send"
    /\ results[2].outcome = "ok"
    /\ Len(output) = 2
    /\ output[1].kind = "diag"
    /\ output[2].kind = "cmp"

HeadersOk(r, ts) ==
    /\ \A n \in {"ApiKey", "Request-Time", "Signature", "Content-Type"} :
          HeaderCount(r.header, n) = 1
    /\ HeaderGet(r.header, "ApiKey") = accessKey
    /\ HeaderGet(r.header, "Request-Time") = ts
    /\ HeaderGet(r.header, "Signature")
          = sign(accessKey, secretKey, ts, getRequestParamString(<<>>, <<>>))
    /\ HeaderGet(r.header, "Content-Type") = "application/json"

\* C3: the request handed to client.Do, and every request handed to it
\* before, carries exactly one ApiKey header with the access key, one
\* Request-Time header with the timestamp that was passed to sign for it,
\* one Signature header with sign(accessKey, secretKey, that timestamp,
\* canonical string of no parameters) and one Content-Type header
\* application/json.
C3_AuthHeaders ==
    /\ pc \in {"main_do", "q_do"} =>
          /\ signArgs.ak = accessKey
          /\ signArgs.sk = secretKey
          /\ signArgs.paramStr = getRequestParamString(<<>>, <<>>)
          /\ HeadersOk(req, signArgs.reqTime)
    /\ pc \in {"main_read", "main_decode", "q_read", "q_decode"} =>
          /\ sent[Len(sent)] = req
          /\ HeadersOk(req, signArgs.reqTime)
    /\ \A i \in 1..Len(sent) :
          HeadersOk(sent[i], HeaderGet(sent[i].header, "Request-Time"))

\* the open-positions request and two fair-price requests have been sent,
\* with two different timestamps among them
C3_Witness ==
    /\ Len(sent) = 3
    /\ ~IsFairPriceRequest(sent[1])
    /\ IsFairPriceRequest(sent[2])
    /\ IsFairPriceRequest(sent[3])
    /\ HeaderGet(sent[1].header, "Request-Time") = <<"0">>
    /\ HeaderGet(sent[3].header, "Request-Time") = <<"2", "0", "0", "0">>

\* C5, as claimed: no two of the requests sent in a run carry the same
\* timestamp, nor the same signature.
C5_TimestampsDistinct ==
    \A i, j \in 1..Len(sent) :
        i # j =>
           /\ HeaderGet(sent[i].header, "Request-Time")
                 # HeaderGet(sent[j].header, "Request-Time")
           /\ HeaderGet(sent[i].header, "Signature")
                 # HeaderGet(sent[j].header, "Signature")

\* the fair price and the hold average price of the i-th call
FairOf(i) == results[i].fairPrice

HoldOf(i) == calls[i].holdAvgPrice

\* p is the percentage that magnitude is of base: positive, and equal to
\* magnitude / base * 100 (for base 0 the float64 quotient is +Inf)
IsPercentOf(p, magnitude, base) ==
    /\ p.num > 0
    /\ base # 0 => /\ p.cls = "fin"
                   /\ p.num * base = magnitude * 100 * p.den
    /\ base = 0 => p.cls = "inf"

C7_LineIffDifferent ==
    \A i \in 1..Len(results) :
        /\ Len(LinesOf(i)) <= 1
        /\ results[i].outcome = "ok" =>
              /\ (Len(LinesOf(i)) = 1) <=> (FairOf(i) # HoldOf(i))
              /\ FairOf(i) = HoldOf(i) => LinesOf(i) = <<>>
              /\ \A k \in 1..Len(LinesOf(i)) :
                    /\ LinesOf(i)[k].kind = "cmp"
                    /\ LinesOf(i)[k].symbol = calls[i].symbol

\* equal prices for the first position (nothing printed), a lower fair
\* price for the second (one line)
C7_Witness ==
    /\ Len(results) = 2
    /\ results[1].outcome = "ok" /\ FairOf(1) = HoldOf(1) /\ FairOf(1) = 100
    /\ results[2].outcome = "ok" /\ FairOf(2) < HoldOf(2)
    /\ Len(output) = 1
    /\ output[1].kind = "cmp"

\* a body is of the expected shape: well-formed JSON in which the member
\* the decoder reads is present with the expected type
ExpectedShape(b) == b.syntax = "valid" /\ b.shape = "present"

\* C8, as claimed: every failed step of stage 1 ends the run with a
\* diagnostic, every failed step of a call of queryFairPriceForSymbol ends
\* the call with a diagnostic and no comparison line; a body that is not of
\* the expected shape counts as a decode failure, so it never yields a
\* comparison line nor a run that ends without any diagnostic.
C8_EveryFailureDiagnosed ==
    /\ Stage1Failed => (pc = "done" /\ Len(output) = 1 /\ output[1].kind = "diag")
    /\ (pc = "done" /\ Len(sent) = 1 /\ body # NoBody /\ ~ExpectedShape(body)) =>
          (output # <<>> /\ output[Len(output)].kind = "diag")
    /\ \A i \in 1..Len(results) :
          /\ results[i].outcome # "ok" =>
                (Len(LinesOf(i)) = 1 /\ LinesOf(i)[1].kind = "diag")
          /\ (results[i].body # NoBody /\ ~ExpectedShape(results[i].body)) =>
                (Len(LinesOf(i)) = 1 /\ LinesOf(i)[1].kind = "diag")

C10_Sequential ==
    /\ Len(calls) <= Len(positions)
    /\ Len(calls) = Len(results) + (IF InQuery THEN 1 ELSE 0)
    /\ pc = "loop" => idx = Len(results) + 1
    /\ \A i \in 1..Len(calls) :
          /\ calls[i].symbol = positions[i].symbol
          /\ calls[i].holdAvgPrice = positions[i].holdAvgPrice
    /\ \A i \in 1..Len(results) :
          /\ Len(RequestsOf(i)) = (IF results[i].outcome = "create" THEN 0 ELSE 1)
          /\ \A k \in 1..Len(RequestsOf(i)) :
                /\ IsFairPriceRequest(RequestsOf(i)[k])
                /\ RequestsOf(i)[k].url[3] = positions[i].symbol
          /\ \A k \in 1..Len(LinesOf(i)) :
                /\ LinesOf(i)[k].symbol = positions[i].symbol
                /\ LinesOf(i)[k].kind = "cmp" =>
                      positions[i].holdAvgPrice
                         = (IF LinesOf(i)[k].greater = "FairPrice"
                            THEN LinesOf(i)[k].second ELSE LinesOf(i)[k].first)
    /\ Len(sent) <= 1 + Len(calls)
    /\ (pc = "done" /\ stage1 = "ok") =>
          /\ Len(calls) = Len(positions)
          /\ Len(results) = Len(positions)
          /\ Len(sent) = 1 + Cardinality({i \in 1..Len(results) :
                                              results[i].outcome # "create"})

\* C10: after a successful stage 1 with N positions, queryFairPriceForSymbol
\* is called once per position in the order of the data array, with that
\* position's symbol and hold average price; a call is made only when the
\* one before has returned; each call sends at most one request (none only
\* when building it failed), for its own symbol, and its line reports its
\* own hold average price; and the run ends, with N calls made.
C10_OneFetchPerPosition == []C10_Sequential /\ <>(pc = "done")

\* a finished run over two positions with different symbols and prices
C10_Witness ==
    /\ pc = "done"
    /\ Len(positions) = 2
    /\ positions[1].symbol # positions[2].symbol
    /\ positions[1].holdAvgPrice # positions[2].holdAvgPrice
    /\ Len(sent) = 3
    /\ Len(output) = 2

====
